---- MODULE Spec2Model ----
(***************************************************************************)
(* A model of three pieces of viur-core:                                   *)
(*   - bones/colorBone.py      colorBone.fromClient                        *)
(*   - bones/userBone.py       userBone.performMagic                       *)
(*   - core/render/html/default.py   Render.renderSkelStructure,           *)
(*                                   Render.renderBoneValue,               *)
(*                                   Render.getTemplateFileName, the ten   *)
(*                                   views, Render.renderEmail and         *)
(*                                   Render.getEnv                         *)
(* Python strings are sequences of one-character strings, except for file  *)
(* and template names, which are strings; None is a value of its own.      *)
(***************************************************************************)
EXTENDS Integers, Sequences, FiniteSets, TLC

VARIABLES
    mode,       \* colorBone.mode
    value,      \* colorBone.value
    data,       \* the request dict handed to colorBone.fromClient
    supplied,   \* whether the last fromClient call found a non-None value
    ret,        \* what the last fromClient call returned
    pc,         \* "request": a call is about to be made; "done": it returned
    skel,       \* the skeleton handed to Render.renderSkelStructure
    structure,  \* what renderSkelStructure returned (an OrderedDict)
    bone,               \* the bone handed to Render.renderBoneValue
    boneValue,          \* the value handed to it
    isLanguageWrapped,  \* the flag handed to it
    rendered,           \* what renderBoneValue returned
    creationMagic,  \* userBone.creationMagic
    updateMagic,    \* userBone.updateMagic
    visible,        \* userBone.visible
    multiple,       \* userBone.multiple
    userValue,      \* the value the user bone holds
    currentUser,    \* what getCurrentUser() returns: a user, or None
    isAdd,          \* the argument of the last performMagic call
    magicRet,       \* what the last performMagic call returned
    magicCalls,     \* how many performMagic calls were made
    lookups,        \* how many getCurrentUser() calls were made
    validatorCalls, \* the fromClient calls made on the user bone, each
                    \* with its arguments and its result
    files,          \* the template files that exist, as paths below
                    \* utils.projectBasePath
    kwargs,         \* currentRequest.get().kwargs
    lang,           \* currentLanguage.get()
    template,       \* the name handed to getTemplateFileName
    ignoreStyle,    \* the flag handed to it
    fileName,       \* what getTemplateFileName returned or raised
    parent,         \* Render.parent: the attributes the owning module defines
    view,           \* the view the renderer was last asked for
    tpl,            \* the tpl argument of that call
    resolved,       \* the names that call handed to getTemplateFileName
    outcome,        \* the template that call rendered, or what it raised
    env,            \* Render.env, once the attribute is set
    envBuilds,      \* how many Environments getEnv constructed
    hookCalls,      \* how many times getEnv called parent.jinjaEnv
    envReturned,    \* what the last getEnv call returned or raised
    file,           \* the file argument of renderEmail
    inline,         \* its template argument: the template as a string
    emailsFile,     \* what "emails/" + file + ".email" is on disk
    loaderFile,     \* what the loaders find for file + ".email"
    output,         \* the text the template renders to
    logged,         \* how many exceptions renderEmail logged
    attempts,       \* the sources renderEmail tried to load, in order
    email           \* what renderEmail returned or raised

colorVars == <<mode, value, data, supplied, ret>>
structVars == <<skel, structure>>
valueVars == <<bone, boneValue, isLanguageWrapped, rendered>>

userVars == <<creationMagic, updateMagic, visible, multiple, userValue,
              currentUser, isAdd, magicRet, magicCalls, lookups,
              validatorCalls>>

templateVars == <<files, kwargs, lang, template, ignoreStyle, fileName>>

viewVars == <<parent, view, tpl, resolved, outcome, env, envBuilds, hookCalls,
              envReturned>>

emailVars == <<file, inline, emailsFile, loaderFile, output, logged, attempts,
               email>>

pageVars == <<templateVars, viewVars, emailVars>>

vars == <<pc, colorVars, structVars, valueVars, userVars, pageVars>>

(***************************************************************************)
(* Bounds                                                                  *)
(***************************************************************************)
\* longest input over the full alphabet Chars (one-call specification)
MaxShort == 7
\* longest input over the full alphabet Chars (call-sequence specification)
MaxSeqShort == 4
\* longest input over the two-character alphabet LongChars
MaxLen == 9
\* most fields of a skeleton
MaxFields == 2
\* most performMagic calls on one user bone
MaxMagicCalls == 3
\* most characters of the style a request asks for
MaxStyleLen == 1
\* most template files that exist
MaxFiles == 2
\* most attributes the owning module defines
MaxAttrs == 2
\* most characters of the text an email template renders to
MaxOut == 5

(***************************************************************************)
(* Python values                                                           *)
(***************************************************************************)
\* Python's None where a string is expected: no string, since every
\* element of a string is a single character
None == <<"None">>
\* Python's None as the return value of fromClient / performMagic
RetNone == "None"

\* the strings over alphabet A of length at most n
Str(A, n) == UNION {[1..k -> A] : k \in 0..n}

\* characters a client sends: a hex digit, an upper-case hex letter, the
\* hash sign and a letter that is no hex digit
Chars == {"#", "1", "B", "g"}
LongChars == {"#", "B"}

Inputs == Str(Chars, MaxShort) \cup Str(LongChars, MaxLen)
SeqInputs == Str(Chars, MaxSeqShort) \cup Str(LongChars, MaxLen)

\* the request dicts over values S: the bone's name absent (an empty dict,
\* or only another field), or the bone's name bound to None or to a string
BoneName == "color"
EmptyDict == [k \in {} |-> None]
Requests(S) ==
    {EmptyDict, [k \in {"other"} |-> <<"1">>]}
        \cup {[k \in {BoneName} |-> v] : v \in S \cup {None}}

(***************************************************************************)
(* bones/colorBone.py                                                      *)
(***************************************************************************)
Modes == {"rgb", "rgba"}

\* str.lower() on one character
LowerChar(c) ==
    CASE c = "A" -> "a" [] c = "B" -> "b" [] c = "C" -> "c"
      [] c = "D" -> "d" [] c = "E" -> "e" [] c = "F" -> "f"
      [] c = "G" -> "g"
      [] OTHER -> c

\* value.lower()
Lower(s) == [i \in 1..Len(s) |-> LowerChar(s[i])]

\* value.count(c)
Count(s, c) == Cardinality({i \in 1..Len(s) : s[i] = c})

\* the characters of "#0123456789abcdef"
ValidChars ==
    {"#", "0", "1", "2", "3", "4", "5", "6", "7", "8", "9",
     "a", "b", "c", "d", "e", "f"}

\* "#"+value
Prepend(v) == <<"#">> \o v

\* value[0:2]+value[1]+2*value[2]+2*value[3], on a value of length 4
Expand4_DropRepeat(v) == <<v[1], v[2], v[3], v[3], v[4], v[4]>>
Expand4(v) == <<v[1], v[2], v[2], v[3], v[3], v[4], v[4]>>

\* the rgb branch: what is stored and returned for the lower-cased,
\* character-checked value v when the bone holds old
FromClientRgb(old, v) ==
    LET v1 == IF Len(v) = 3 THEN Prepend(v) ELSE v
        v2 == IF Len(v1) = 4 THEN Expand4(v1) ELSE v1
    IN  IF Len(v2) = 6 \/ Len(v2) = 7
        THEN [value |-> IF Len(v2) = 6 THEN Prepend(v2) ELSE v2,
              ret |-> RetNone]
        ELSE [value |-> old, ret |-> "Invalid value entered"]

\* the rgba branch
FromClientRgba(old, v) ==
    IF Len(v) = 8 \/ Len(v) = 9
    THEN [value |-> IF Len(v) = 8 THEN Prepend(v) ELSE v, ret |-> RetNone]
    ELSE [value |-> old, ret |-> "Invalid value entered"]

\* a fromClient that assigns self.value before the length checks
fromClient_StoreFirst(m, old, name, d) ==
    LET raw == IF name \in DOMAIN d THEN d[name] ELSE None
        v == Lower(raw)
    IN  IF m # "rgb" /\ m # "rgba"
        THEN [value |-> old, ret |-> "Invalid mode selected"]
        ELSE IF raw = None
        THEN [value |-> old, ret |-> RetNone]
        ELSE IF Count(v, "#") > 1
        THEN [value |-> old, ret |-> "Invalid value entered"]
        ELSE IF \E i \in 1..Len(v) : v[i] \notin ValidChars
        THEN [value |-> old, ret |-> "Invalid value entered"]
        ELSE IF m = "rgb"
        THEN FromClientRgb(v, v)
        ELSE FromClientRgba(v, v)

\* colorBone.fromClient(name, data) on a bone of mode m holding old:
\* the value the bone holds afterwards and what the call returns
fromClient(m, old, name, d) ==
    LET raw == IF name \in DOMAIN d THEN d[name] ELSE None
        v == Lower(raw)
    IN  IF m # "rgb" /\ m # "rgba"
        THEN [value |-> old, ret |-> "Invalid mode selected"]
        ELSE IF raw = None
        THEN [value |-> old, ret |-> RetNone]
        ELSE IF Count(v, "#") > 1
        THEN [value |-> old, ret |-> "Invalid value entered"]
        ELSE IF \E i \in 1..Len(v) : v[i] \notin ValidChars
        THEN [value |-> old, ret |-> "Invalid value entered"]
        ELSE IF m = "rgb"
        THEN FromClientRgb(old, v)
        ELSE FromClientRgba(old, v)

\* whether a request carries a value for the bone
Supplies(name, d) == name \in DOMAIN d /\ d[name] # None

\* the bone of a specification that makes no colorBone call
ColorIdle ==
    /\ mode = "rgb"
    /\ value = None
    /\ data = EmptyDict
    /\ supplied = FALSE
    /\ ret = RetNone

\* colorBone(mode): a fresh bone, no request handled yet
ColorInit ==
    /\ mode \in Modes
    /\ value = None
    /\ supplied = FALSE
    /\ ret = RetNone

\* one fromClient call on the request drawn at the start
FromClient ==
    /\ pc = "request"
    /\ LET r == fromClient(mode, value, BoneName, data)
       IN  /\ value' = r.value
           /\ ret' = r.ret
    /\ supplied' = Supplies(BoneName, data)
    /\ pc' = "done"
    /\ UNCHANGED <<mode, data, structVars, valueVars, userVars, pageVars>>

\* one fromClient call of a sequence of calls, on any request
FromClientSeq ==
    /\ pc = "done"
    /\ \E d \in Requests(SeqInputs) :
         /\ LET r == fromClient(mode, value, BoneName, d)
            IN  /\ value' = r.value
                /\ ret' = r.ret
         /\ supplied' = Supplies(BoneName, d)
    /\ UNCHANGED <<mode, data, pc, structVars, valueVars, userVars,
                   pageVars>>

(***************************************************************************)
(* core/render/html/default.py: values handed to templates                 *)
(***************************************************************************)
\* Python values, tagged by their type
PyNone == [t |-> "none"]
PyStr(x) == [t |-> "str", s |-> x]
PyList(x) == [t |-> "list", l |-> x]
PyDict(x) == [t |-> "dict", d |-> x]

\* sub in s, for strings
Contains(s, sub) ==
    \E i \in 0..(Len(s) - Len(sub)) : \A j \in 1..Len(sub) : s[i + j] = sub[j]

\* bone.type == base or bone.type.startswith(base + "."): a type is the
\* sequence of its dot-separated parts
TypeIs(b, base) ==
    b.type = <<base>> \/ (Len(b.type) > 1 /\ b.type[1] = base)

\* an OrderedDict is the sequence of its <<key, value>> pairs, in the
\* order the keys were first set; od[key] = val
OdSet(od, key, val) ==
    IF \E i \in 1..Len(od) : od[i][1] = key
    THEN [i \in 1..Len(od) |-> IF od[i][1] = key THEN <<key, val>> ELSE od[i]]
    ELSE Append(od, <<key, val>>)

\* d.update(new), for dicts as functions
Update(d, new) == new @@ d

\* the attributes every bone has (BaseBone)
BaseBone(type) ==
    [isBone |-> TRUE, type |-> type, descr |-> "d", required |-> FALSE,
     multiple |-> FALSE, params |-> PyNone, visible |-> TRUE,
     readOnly |-> FALSE, languages |-> PyNone]

\* a skeleton attribute that is no bone
NonBone == [isBone |-> FALSE]

\* field names: plain, with one underscore, and with "__" at the start
\* and in the middle
KeyA == <<"a">>
KeyB == <<"_", "b">>
KeyHidden == <<"_", "_", "x">>
KeyInner == <<"a", "_", "_", "b">>
FieldNames == {KeyA, KeyB, KeyHidden, KeyInner}

\* error messages a skeleton records
ErrorMessages == {PyStr("Field required")}

\* the skeletons a relational or record bone refers to: their instances
\* are fresh, so they record no error
NoErrors == [k \in {} |-> PyNone]
RefSkel ==
    [items |-> << <<KeyA, BaseBone(<<"str">>)>>, <<KeyHidden, NonBone>> >>,
     errors |-> NoErrors]
UsingSkel ==
    [items |-> << <<KeyB, BaseBone(<<"numeric">>)
                            @@ [precision |-> 0, min |-> 0, max |-> 9]>> >>,
     errors |-> NoErrors]

\* the bones of the skeletons rendered
StructBones ==
    {BaseBone(<<"password">>),
     [BaseBone(<<"str">>) EXCEPT !.languages = PyList(<<"en", "de">>)],
     BaseBone(<<"relational", "user">>)
        @@ [module |-> "user", format |-> "$(name)", using |-> PyNone,
            refSkel |-> RefSkel],
     BaseBone(<<"relational">>)
        @@ [module |-> "file", format |-> "$(name)", using |-> UsingSkel,
            refSkel |-> RefSkel],
     BaseBone(<<"record">>) @@ [format |-> "$(a)", using |-> UsingSkel],
     BaseBone(<<"select">>) @@ [values |-> [k \in {"k1"} |-> "One"]],
     BaseBone(<<"date">>) @@ [date |-> TRUE, time |-> FALSE],
     BaseBone(<<"numeric">>) @@ [precision |-> 2, min |-> 0, max |-> 9],
     BaseBone(<<"text">>) @@ [validHtml |-> PyNone],
     BaseBone(<<"captcha">>) @@ [publicKey |-> "pk"]}

\* the sequences over S of length at most n without a repeated element
DistinctSeqs(S, n) ==
    {q \in Str(S, n) : \A i, j \in 1..Len(q) : i # j => q[i] # q[j]}

\* the error mappings a skeleton can hold: a message for some field names
ErrorMaps ==
    UNION {[D -> ErrorMessages] : D \in SUBSET {KeyA, KeyB, KeyHidden}}

\* the skeleton of fields named ks, in this order, with entries es and
\* recorded errors er
Skeleton(ks, es, er) ==
    [items |-> [i \in 1..Len(ks) |-> <<ks[i], es[i]>>], errors |-> er]

RECURSIVE renderSkelStructure(_)
RECURSIVE renderBoneStructure(_)
RECURSIVE RenderItems(_, _, _)

\* Render.renderBoneStructure(bone)
renderBoneStructure(b) ==
    LET base == [descr |-> PyStr(b.descr), type |-> b.type,
                 required |-> b.required, multiple |-> b.multiple,
                 params |-> b.params, visible |-> b.visible,
                 readOnly |-> b.readOnly]
    IN  IF TypeIs(b, "relational")
        THEN Update(base,
                [module |-> b.module, format |-> b.format,
                 using |-> IF b.using # PyNone
                           THEN PyList(renderSkelStructure(b.using))
                           ELSE PyNone,
                 relskel |-> PyList(renderSkelStructure(b.refSkel))])
        ELSE IF TypeIs(b, "record")
        THEN Update(base,
                [format |-> b.format,
                 using |-> PyList(renderSkelStructure(b.using))])
        ELSE IF TypeIs(b, "select")
        THEN Update(base,
                [values |-> [k \in DOMAIN b.values |-> PyStr(b.values[k])],
                 multiple |-> b.multiple])
        ELSE IF TypeIs(b, "date")
        THEN Update(base, [date |-> b.date, time |-> b.time])
        ELSE IF TypeIs(b, "numeric")
        THEN Update(base, [precision |-> b.precision, min |-> b.min,
                           max |-> b.max])
        ELSE IF TypeIs(b, "text")
        THEN Update(base, [validHtml |-> b.validHtml,
                           languages |-> b.languages])
        ELSE IF TypeIs(b, "str")
        THEN Update(base, [languages |-> b.languages,
                           multiple |-> b.multiple])
        ELSE IF TypeIs(b, "captcha")
        THEN Update(base, [publicKey |-> b.publicKey])
        ELSE base

\* "__" in key or not isinstance(bone, BaseBone): the field is skipped
Skipped_PrefixOnly(key, b) ==
    (Len(key) >= 2 /\ key[1] = "_" /\ key[2] = "_") \/ ~b.isBone
Skipped(key, b) == Contains(key, <<"_", "_">>) \/ ~b.isBone

\* the "error" entry of field key: skel.errors[key], or None
ErrorEntry_AlwaysNone(sk, key) == PyNone
ErrorEntry(sk, key) ==
    IF key \in DOMAIN sk.errors THEN sk.errors[key] ELSE PyNone

\* the loop of renderSkelStructure from the i-th item of skel.items() on,
\* res being the OrderedDict built so far
RenderItems(sk, i, res) ==
    IF i > Len(sk.items) THEN res
    ELSE LET key == sk.items[i][1]
             b == sk.items[i][2]
         IN  IF Skipped(key, b)
             THEN RenderItems(sk, i + 1, res)
             ELSE RenderItems(sk, i + 1,
                     OdSet(res, key,
                           Update(renderBoneStructure(b),
                                  [error |-> ErrorEntry(sk, key)])))

\* Render.renderSkelStructure(skel)
renderSkelStructure(sk) == RenderItems(sk, 1, <<>>)

\* the renderer of a specification that renders no structure
StructIdle ==
    /\ skel = [items |-> <<>>, errors |-> NoErrors]
    /\ structure = <<>>

\* the call renderSkelStructure(skel)
RenderSkelStructure ==
    /\ pc = "request"
    /\ structure' = renderSkelStructure(skel)
    /\ pc' = "done"
    /\ UNCHANGED <<skel, colorVars, valueVars, userVars, pageVars>>

(***************************************************************************)
(* core/render/html/default.py: Render.renderBoneValue                     *)
(***************************************************************************)
\* a skeleton instance held as a value; renderPreparation tells whether
\* the renderer's renderBoneValue was attached to it
PyEntity(n) == [t |-> "entity", name |-> n, renderPreparation |-> FALSE]
\* a datastore key
PyKey(n) == [t |-> "key", id |-> n]
\* KeyValueWrapper(key, descr)
KeyValueWrapper(k, descr) == [t |-> "KeyValueWrapper", key |-> k, descr |-> descr]
\* a LanguageWrapper(languages) holding the entries d
LanguageWrapper(languages, d) ==
    [t |-> "LanguageWrapper", languages |-> languages, d |-> d]

\* the truth value Python gives a value in "if v"
Truthy(v) ==
    CASE v.t = "none" -> FALSE
      [] v.t = "str" -> v.s # ""
      [] v.t = "list" -> Len(v.l) > 0
      [] v.t = "dict" -> DOMAIN v.d # {}
      [] OTHER -> TRUE

\* str(v)
ToStr(v) == IF v.t = "none" THEN PyStr("None") ELSE v

\* e.renderPreparation = self.renderBoneValue
Attach(e) == [e EXCEPT !.renderPreparation = TRUE]

\* db.encodeKey(key)
encodeKey(k) == [t |-> "encodedKey", id |-> k.id]

\* the select branch (lines 255-262)
RenderSelect(b, v) ==
    IF v.t = "list"
    THEN PyDict([k \in {v.l[i].s : i \in 1..Len(v.l)} |->
                    IF k \in DOMAIN b.values THEN PyStr(b.values[k])
                    ELSE PyStr(k)])
    ELSE IF v.t = "str" /\ v.s \in DOMAIN b.values
    THEN KeyValueWrapper(v, PyStr(b.values[v.s]))
    ELSE KeyValueWrapper(v, ToStr(v))

\* one reference of a relational value as it is returned (lines 270-279,
\* 282-291)
RenderRef(b, k) ==
    PyDict([dest |-> Attach(k.d.dest),
            rel |-> IF b.using # PyNone /\ Truthy(k.d.rel)
                    THEN Attach(k.d.rel) ELSE PyNone])

\* a relational branch that ends in an empty list
RenderRelational_DefaultList(b, v) ==
    IF v.t = "list"
    THEN LET kept == SelectSeq(v.l, Truthy)
         IN  PyList([i \in 1..Len(kept) |-> RenderRef(b, kept[i])])
    ELSE IF v.t = "dict"
    THEN RenderRef(b, v)
    ELSE PyList(<<>>)

\* the relational branch (lines 265-291): None when the value is neither
\* a list nor a dict
RenderRelational(b, v) ==
    IF v.t = "list"
    THEN LET kept == SelectSeq(v.l, Truthy)
         IN  PyList([i \in 1..Len(kept) |-> RenderRef(b, kept[i])])
    ELSE IF v.t = "dict"
    THEN RenderRef(b, v)
    ELSE PyNone

\* the record branch (lines 293-302): None when the value is empty
RenderRecord(b, v) ==
    IF Truthy(v)
    THEN IF b.multiple
         THEN PyList([i \in 1..Len(v.l) |-> Attach(v.l[i])])
         ELSE Attach(v)
    ELSE PyNone

\* the password branch (line 304)
RenderPassword_PassThrough(v) == v
RenderPassword(v) == PyStr("")

\* the key branch (line 306)
RenderKey(v) == IF Truthy(v) THEN encodeKey(v) ELSE PyNone

\* the languages a bone declares, as a set
Declared(b) == {b.languages.l[i] : i \in 1..Len(b.languages.l)}

RECURSIVE renderBoneValue(_, _, _, _, _)
\* Render.renderBoneValue(bone, skel, key, boneValue, isLanguageWrapped)
renderBoneValue(b, sk, key, v, wrapped) ==
    IF Truthy(b.languages) /\ ~wrapped
    THEN LanguageWrapper(b.languages,
            IF v.t = "dict"
            THEN [language \in Declared(b) \cap DOMAIN v.d |->
                     renderBoneValue(b, sk, key, v.d[language], TRUE)]
            ELSE [language \in {} |-> PyNone])
    ELSE IF TypeIs(b, "select") THEN RenderSelect(b, v)
    ELSE IF TypeIs(b, "relational") THEN RenderRelational(b, v)
    ELSE IF TypeIs(b, "record") THEN RenderRecord(b, v)
    ELSE IF b.type = <<"password">> THEN RenderPassword(v)
    ELSE IF b.type = <<"key">> THEN RenderKey(v)
    ELSE v

\* the reference k once renderBoneValue has passed over it
PreparedRef(b, k) ==
    IF ~Truthy(k) THEN k
    ELSE PyDict([dest |-> Attach(k.d.dest),
                 rel |-> IF b.using # PyNone /\ Truthy(k.d.rel)
                         THEN Attach(k.d.rel) ELSE k.d.rel])

RECURSIVE Prepared(_, _, _)
\* the value v once renderBoneValue has returned: the entities it holds
\* have renderPreparation attached by the relational and record branches
Prepared(b, v, wrapped) ==
    IF Truthy(b.languages) /\ ~wrapped
    THEN IF v.t = "dict"
         THEN PyDict([language \in DOMAIN v.d |->
                        IF language \in Declared(b)
                        THEN Prepared(b, v.d[language], TRUE)
                        ELSE v.d[language]])
         ELSE v
    ELSE IF TypeIs(b, "select") THEN v
    ELSE IF TypeIs(b, "relational")
    THEN IF v.t = "list"
         THEN PyList([i \in 1..Len(v.l) |-> PreparedRef(b, v.l[i])])
         ELSE IF v.t = "dict" THEN PreparedRef(b, v) ELSE v
    ELSE IF TypeIs(b, "record") THEN
         IF Truthy(v) THEN RenderRecord(b, v) ELSE v
    ELSE v

\* the bones whose values are rendered, with and without languages
ValueBones ==
    LET plain ==
          {BaseBone(<<"str">>), BaseBone(<<"password">>), BaseBone(<<"key">>),
           BaseBone(<<"color">>),
           BaseBone(<<"select">>) @@ [values |-> [k \in {"k1"} |-> "One"]],
           BaseBone(<<"select", "access">>)
              @@ [values |-> [k \in {"k1"} |-> "One"]],
           BaseBone(<<"relational">>) @@ [using |-> PyNone],
           BaseBone(<<"relational", "user">>) @@ [using |-> UsingSkel],
           BaseBone(<<"record">>),
           [BaseBone(<<"record">>) EXCEPT !.multiple = TRUE]}
    IN  plain \cup {[b EXCEPT !.languages = PyList(<<"en", "de">>)] : b \in plain}

\* a reference held by a relational bone: {"dest": ..., "rel": ...}
Ref(dest, rel) == PyDict([dest |-> dest, rel |-> rel])

\* the values one language, or a bone without languages, can hold
PlainValues(b) ==
    IF TypeIs(b, "select")
    THEN {PyNone, PyStr("k1"), PyStr("zz"), PyList(<<>>),
          PyList(<<PyStr("k1"), PyStr("zz")>>)}
    ELSE IF TypeIs(b, "relational")
    THEN {PyNone, PyList(<<>>),
          Ref(PyEntity("e1"), PyNone), Ref(PyEntity("e1"), PyEntity("r1")),
          PyList(<<Ref(PyEntity("e1"), PyEntity("r1")), PyNone,
                   Ref(PyEntity("e2"), PyNone)>>)}
    ELSE IF TypeIs(b, "record")
    THEN IF b.multiple
         THEN {PyNone, PyList(<<>>), PyList(<<PyEntity("e1"), PyEntity("e2")>>)}
         ELSE {PyNone, PyEntity("e1")}
    ELSE IF b.type = <<"key">>
    THEN {PyNone, PyKey(1)}
    ELSE {PyNone, PyStr(""), PyStr("s3cret")}

\* the languages a stored value can have entries for: one the bones
\* declare and one they do not
StoredLanguages == {"en", "fr"}

\* the values a bone with languages holds before unwrapping: one value
\* per stored language, or nothing
WrappedValues(b) ==
    {PyNone} \cup
    {PyDict(f) : f \in UNION {[D -> PlainValues(b)] : D \in SUBSET StoredLanguages}}

\* the renderer of a specification that renders no value
ValueIdle ==
    /\ bone = BaseBone(<<"str">>)
    /\ boneValue = PyNone
    /\ isLanguageWrapped = FALSE
    /\ rendered = PyNone

\* the call renderBoneValue(bone, skel, key, boneValue, isLanguageWrapped)
RenderBoneValue ==
    /\ pc = "request"
    /\ rendered' = renderBoneValue(bone, skel, KeyA, boneValue, isLanguageWrapped)
    /\ boneValue' = Prepared(bone, boneValue, isLanguageWrapped)
    /\ pc' = "done"
    /\ UNCHANGED <<bone, isLanguageWrapped, colorVars, structVars, userVars,
                   pageVars>>

(***************************************************************************)
(* bones/userBone.py                                                       *)
(***************************************************************************)
\* the users getCurrentUser() can return (a user is true in "if user")
Users == {[t |-> "user", id |-> 7], [t |-> "user", id |-> 42]}

\* relationalBone.fromClient(name, data) on a bone holding old: the
\* outcomes the relation validator can have, each the value the bone
\* holds afterwards and what the call returns. It accepts the entry
\* bound to name, or rejects the input and leaves the bone as it is;
\* without an entry it also may find nothing to do.
relationalFromClient(old, name, d) ==
    IF name \in DOMAIN d
    THEN {[value |-> PyStr(d[name]), ret |-> RetNone],
          [value |-> old, ret |-> "Invalid value selected"]}
    ELSE {[value |-> old, ret |-> RetNone],
          [value |-> old, ret |-> "No value selected"]}

\* the condition of performMagic (line 20)
Triggers_IgnoresIsAdd(cm, um, add) == um \/ cm
Triggers(cm, um, add) == um \/ (cm /\ add)

\* the data performMagic hands to fromClient for the user found
\* (lines 22-25): {"user": str(user["id"])}, or {} without a user
MagicData(user) ==
    IF Truthy(user) THEN [k \in {"user"} |-> ToString(user.id)]
    ELSE [k \in {} |-> ""]

\* the user bone of a specification that makes no performMagic call
UserIdle ==
    /\ creationMagic = FALSE
    /\ updateMagic = FALSE
    /\ visible = TRUE
    /\ multiple = FALSE
    /\ userValue = PyNone
    /\ currentUser = PyNone
    /\ isAdd = FALSE
    /\ magicRet = RetNone
    /\ magicCalls = 0
    /\ lookups = 0
    /\ validatorCalls = <<>>

\* userBone(creationMagic, updateMagic, visible=..., multiple=...)
UserInit ==
    /\ creationMagic \in BOOLEAN
    /\ updateMagic \in BOOLEAN
    /\ \E v, m \in BOOLEAN :
         /\ visible = IF creationMagic \/ updateMagic THEN FALSE ELSE v
         /\ multiple = IF creationMagic \/ updateMagic THEN FALSE ELSE m
    /\ userValue = PyNone
    /\ currentUser \in Users \cup {PyNone}
    /\ isAdd = FALSE
    /\ magicRet = RetNone
    /\ magicCalls = 0
    /\ lookups = 0
    /\ validatorCalls = <<>>

\* userBone.performMagic(isAdd)
PerformMagic ==
    /\ magicCalls < MaxMagicCalls
    /\ magicCalls' = magicCalls + 1
    /\ \E add \in BOOLEAN :
         /\ isAdd' = add
         /\ IF Triggers(creationMagic, updateMagic, add)
            THEN /\ lookups' = lookups + 1
                 /\ \E out \in relationalFromClient(userValue, "user",
                                                    MagicData(currentUser)) :
                      /\ validatorCalls' =
                           Append(validatorCalls,
                                  [name |-> "user",
                                   data |-> MagicData(currentUser),
                                   ret |-> out.ret])
                      /\ userValue' = out.value
                      /\ magicRet' = out.ret
            ELSE /\ magicRet' = RetNone
                 /\ UNCHANGED <<lookups, validatorCalls, userValue>>
    /\ UNCHANGED <<creationMagic, updateMagic, visible, multiple, currentUser,
                   pc, colorVars, structVars, valueVars, pageVars>>

\* between two calls the session's user logs in or out
SessionChange ==
    /\ magicCalls < MaxMagicCalls
    /\ currentUser' \in (Users \cup {PyNone}) \ {currentUser}
    /\ UNCHANGED <<creationMagic, updateMagic, visible, multiple, userValue,
                   isAdd, magicRet, magicCalls, lookups, validatorCalls,
                   pc, colorVars, structVars, valueVars, pageVars>>

(***************************************************************************)
(* core/render/html/default.py: Render.getTemplateFileName                 *)
(* File names and paths are strings; a template name is kept as the        *)
(* sequence of its parts between "_", a style as its characters.           *)
(***************************************************************************)
\* the characters of s as one string
RECURSIVE Text(_)
Text(s) == IF s = <<>> THEN "" ELSE s[1] \o Text(Tail(s))

\* the template name whose parts between "_" are parts
RECURSIVE Name(_)
Name(parts) ==
    IF Len(parts) = 1 THEN parts[1]
    ELSE parts[1] \o "_" \o Name(Tail(parts))

\* os.path.join(*parts), below utils.projectBasePath (no part is absolute,
\* the last one is not empty)
RECURSIVE join(_)
join(parts) ==
    IF Len(parts) = 1 THEN parts[1]
    ELSE IF parts[1] = "" THEN join(Tail(parts))
    ELSE parts[1] \o "/" \o join(Tail(parts))

\* the characters of "abcdefghijklmnopqrstuvwxyz1234567890-" (line 84)
validChars ==
    {"a", "b", "c", "d", "e", "f", "g", "h", "i", "j", "k", "l", "m",
     "n", "o", "p", "q", "r", "s", "t", "u", "v", "w", "x", "y", "z",
     "1", "2", "3", "4", "5", "6", "7", "8", "9", "0", "-"}

\* Render defines no htmlpath of its own (line 88)
htmlpath == "html"

\* the folder of the templates shipped with the server (line 111)
fallbackpath == "viur/core/template"

\* stylePostfix (lines 90-95): the style is checked lower-cased and
\* appended as it was sent
stylePostfix(kw, ign) ==
    IF /\ ~ign
       /\ "style" \in DOMAIN kw
       /\ \A i \in 1..Len(kw["style"]) : LowerChar(kw["style"][i]) \in validChars
    THEN "_" \o Text(kw["style"])
    ELSE ""

\* fnames (lines 97-102)
fnames(t, post, lg) ==
    IF lg # ""
    THEN <<join(<<lg, Name(t) \o post \o ".html">>),
           Name(t) \o post \o ".html",
           join(<<lg, Name(t) \o ".html">>),
           Name(t) \o ".html">>
    ELSE <<Name(t) \o post \o ".html", Name(t) \o ".html">>

\* one "for fn in fnames" loop over folder dir: the index of the first fn
\* that is a file there, 0 when the loop ends without a return
FirstFile(dir, fns, fs) ==
    LET hits == {i \in 1..Len(fns) : join(<<dir, fns[i]>>) \in fs}
    IN  IF hits = {} THEN 0 ELSE CHOOSE i \in hits : \A j \in hits : i <= j

\* raise errors.NotFound(...)
NotFound == [t |-> "NotFound"]

\* getTemplateFileName(template, ignoreStyle) for the request kwargs kw,
\* the language lg and the files fs (lines 84-113)
getTemplateFileName_RootFirst(t, ign, kw, lg, fs) ==
    LET fns == fnames(t, stylePostfix(kw, ign), lg)
        prefix == t[1]
        sub == FirstFile(join(<<htmlpath, prefix>>), fns, fs)
        app == FirstFile(htmlpath, fns, fs)
        fallback == FirstFile(fallbackpath, fns, fs)
    IN  IF app # 0 THEN PyStr(fns[app])
        ELSE IF sub # 0 THEN PyStr(prefix \o "/" \o fns[sub])
        ELSE IF fallback # 0 THEN PyStr(fns[fallback])
        ELSE NotFound
getTemplateFileName(t, ign, kw, lg, fs) ==
    LET fns == fnames(t, stylePostfix(kw, ign), lg)
        prefix == t[1]
        sub == FirstFile(join(<<htmlpath, prefix>>), fns, fs)
        app == FirstFile(htmlpath, fns, fs)
        fallback == FirstFile(fallbackpath, fns, fs)
    IN  IF sub # 0 THEN PyStr(prefix \o "/" \o fns[sub])
        ELSE IF app # 0 THEN PyStr(fns[app])
        ELSE IF fallback # 0 THEN PyStr(fns[fallback])
        ELSE NotFound

\* the file Environment.get_template(name) reads through the loaders of
\* getLoaders (line 127): the application's folder, then the server's
get_template(name, fs) ==
    IF join(<<htmlpath, name>>) \in fs THEN PyStr(join(<<htmlpath, name>>))
    ELSE IF join(<<fallbackpath, name>>) \in fs
    THEN PyStr(join(<<fallbackpath, name>>))
    ELSE [t |-> "TemplateNotFound"]

\* the languages a request can run in ("": none is set)
Langs == {"", "en"}

\* the styles a request can ask for: lower case, upper case, and a
\* character that is not valid
Styles == Str({"b", "B", "/"}, MaxStyleLen)

NoKwargs == [k \in {} |-> <<>>]
Kwargs == {NoKwargs} \cup {[k \in {"style"} |-> s] : s \in Styles}

\* the template names asked for: "list" and "list_b"
Templates == {<<"list">>, <<"list", "b">>}

\* the files that can exist: in the folder of the prefix "list", in the
\* application's folder and in the server's, with or without a language
\* folder, with or without a style
TemplateDirs == {join(<<htmlpath, "list">>), htmlpath, fallbackpath}
TemplateFiles == {"list.html", "list_b.html", "list_B.html"}
AllFiles ==
    {join(<<d, l, f>>) : d \in TemplateDirs, l \in Langs, f \in TemplateFiles}

\* the sets of at most n of the files S
FileSets(S, n) == {{}} \cup {{f[i] : i \in 1..n} : f \in [1..n -> S]}

\* a specification that resolves no template
TemplateIdle ==
    /\ files = {}
    /\ kwargs = NoKwargs
    /\ lang = ""
    /\ template = <<"list">>
    /\ ignoreStyle = FALSE
    /\ fileName = PyNone


\* self.getTemplateFileName(template, ignoreStyle)
GetTemplateFileName ==
    /\ pc = "request"
    /\ fileName' = getTemplateFileName(template, ignoreStyle, kwargs, lang,
                                       files)
    /\ pc' = "done"
    /\ UNCHANGED <<files, kwargs, lang, template, ignoreStyle, colorVars,
                   structVars, valueVars, userVars, viewVars, emailVars>>

(***************************************************************************)
(* core/render/html/default.py: the views of Render and Render.getEnv      *)
(* The skeleton a view is handed belongs to the caller; the renderer's own *)
(* state is its parent and its environment.                                *)
(***************************************************************************)
\* the template names Render defines for itself (lines 44-55)
Render ==
    [listTemplate |-> <<"list">>,
     viewTemplate |-> <<"view">>,
     addTemplate |-> <<"add">>,
     editTemplate |-> <<"edit">>,
     addSuccessTemplate |-> <<"add", "success">>,
     editSuccessTemplate |-> <<"edit", "success">>,
     deleteSuccessTemplate |-> <<"delete", "success">>,
     listRepositoriesTemplate |-> <<"list", "repositories">>,
     reparentSuccessTemplate |-> <<"reparent", "success">>,
     cloneSuccessTemplate |-> <<"clone", "success">>]

\* tpl=None: no name, every name having at least one part
NoTpl == <<>>

\* "if tpl"
Given(t) == t # NoTpl

\* the tpl arguments of a call: none, or a name of the caller's
TplArgs == {NoTpl, <<"custom">>}

\* the attributes an owning module can define: a template name of its
\* own for a view ("my_add" for addTemplate), and the hook jinjaEnv
ModuleAttrs == DOMAIN Render \cup {"jinjaEnv"}
ModuleValue(a) == IF a = "jinjaEnv" THEN <<"jinjaEnv">> ELSE <<"my">> \o Render[a]
NoParent == [a \in {} |-> <<>>]
Parents == {[a \in A |-> ModuleValue(a)] : A \in FileSets(ModuleAttrs, MaxAttrs)}

\* the name add, edit, list and view choose (lines 330-333, 364-367,
\* 459-461, 510-513)
OrDefault(t, attr, p) ==
    LET t1 == IF ~Given(t) /\ attr \in DOMAIN p THEN p[attr] ELSE t
    IN  IF Given(t1) THEN t1 ELSE Render[attr]

\* the name addSuccess, editSuccess, deleteSuccess, reparentSuccess and
\* cloneSuccess choose (lines 392-396, 413-417, 438-442, 533-537, 551-555)
ParentOrOwn(t, attr, p) ==
    IF ~Given(t)
    THEN IF attr \in DOMAIN p THEN p[attr] ELSE Render[attr]
    ELSE t

\* line 488 reads self.parent.listTemplate: it raises AttributeError when
\* the module defines listRepositoriesTemplate, but no listTemplate
ListRootNodesRaises(t, p) ==
    /\ "listRepositoriesTemplate" \in DOMAIN p
    /\ ~Given(t)
    /\ "listTemplate" \notin DOMAIN p

\* the name listRootNodes chooses (lines 487-490), when line 488 does not
\* raise
ListRootNodesTpl(t, p) ==
    LET t1 == IF "listRepositoriesTemplate" \in DOMAIN p
              THEN IF Given(t) THEN t ELSE p["listTemplate"]
              ELSE t
    IN  IF ~Given(t1) THEN Render["listRepositoriesTemplate"] ELSE t1

\* what a call raises
AttributeError == [t |-> "AttributeError"]
HookError == [t |-> "HookError"]

\* Render.env: not set, the Environment getEnv constructs (line 609, with
\* the globals, filters and extensions of lines 614-623, and changed by
\* the module's hook or not), or an Environment the hook made itself
NoEnv == [t |-> "absent"]
Built(hooked) == [t |-> "env", id |-> 1, hooked |-> hooked]
Foreign == [t |-> "env", id |-> 2, hooked |-> TRUE]

\* getEnv() on a renderer whose env is e and whose parent is p (lines
\* 607-629): what env is afterwards, what the call returns or raises,
\* how many Environments it constructed and how often it called the hook.
\* The hook is the module's: it returns the Environment it was handed,
\* or one of its own, or raises.
getEnv_AlwaysBuild(e, p) ==
    IF "jinjaEnv" \in DOMAIN p
    THEN {[env |-> Built(TRUE), ret |-> Built(TRUE), builds |-> 1, hooks |-> 1],
          [env |-> Foreign, ret |-> Foreign, builds |-> 1, hooks |-> 1],
          [env |-> Built(FALSE), ret |-> HookError, builds |-> 1, hooks |-> 1]}
    ELSE {[env |-> Built(FALSE), ret |-> Built(FALSE), builds |-> 1,
           hooks |-> 0]}
getEnv(e, p) ==
    IF e # NoEnv
    THEN {[env |-> e, ret |-> e, builds |-> 0, hooks |-> 0]}
    ELSE IF "jinjaEnv" \in DOMAIN p
    THEN {[env |-> Built(TRUE), ret |-> Built(TRUE), builds |-> 1, hooks |-> 1],
          [env |-> Foreign, ret |-> Foreign, builds |-> 1, hooks |-> 1],
          [env |-> Built(FALSE), ret |-> HookError, builds |-> 1, hooks |-> 1]}
    ELSE {[env |-> Built(FALSE), ret |-> Built(FALSE), builds |-> 1,
           hooks |-> 0]}

\* a getEnv call as part of a view
CallGetEnv(g) ==
    /\ env' = g.env
    /\ envReturned' = g.ret
    /\ envBuilds' = envBuilds + g.builds
    /\ hookCalls' = hookCalls + g.hooks

\* self.getTemplateFileName(t) on the request at hand
Resolve(t) == getTemplateFileName(t, FALSE, kwargs, lang, files)

\* template.render(...) of the template found under the name fn
Html(fn) == [t |-> "html", file |-> get_template(fn.s, files).s]

\* what a view leaves alone
ViewFrame ==
    UNCHANGED <<parent, templateVars, pc, colorVars, structVars, valueVars,
                userVars, emailVars>>

\* "template = self.getEnv().get_template(self.getTemplateFileName(tpl))"
\* and the rendering, for the view kind asked with t and the name chosen:
\* getEnv is called first, then the name is resolved
Page(kind, t, chosen) ==
    /\ view' = kind
    /\ tpl' = t
    /\ resolved' = <<chosen>>
    /\ \E g \in getEnv(env, parent) :
         /\ CallGetEnv(g)
         /\ outcome' = IF g.ret = HookError THEN HookError
                       ELSE IF Resolve(chosen) = NotFound THEN NotFound
                       ELSE Html(Resolve(chosen))
    /\ ViewFrame

\* the name the second getTemplateFileName call of list and listRootNodes
\* is handed (lines 462-465, 491-494)
Fallback_KeepName(chosen) == chosen
Fallback(chosen) == IF Resolve(chosen) = NotFound THEN <<"list">> ELSE chosen

\* lines 462-469 and 491-496: the name chosen is resolved, and on NotFound
\* replaced by "list"; then getEnv is called and the name resolved again
ListPage(kind, t, chosen) ==
    /\ view' = kind
    /\ tpl' = t
    /\ \E g \in getEnv(env, parent) :
         /\ CallGetEnv(g)
         /\ IF g.ret = HookError
            THEN /\ resolved' = <<chosen>>
                 /\ outcome' = HookError
            ELSE /\ resolved' = <<chosen, Fallback(chosen)>>
                 /\ outcome' = IF Resolve(Fallback(chosen)) = NotFound
                               THEN NotFound
                               ELSE Html(Resolve(Fallback(chosen)))
    /\ ViewFrame

Add == \E t \in TplArgs : Page("add", t, OrDefault(t, "addTemplate", parent))

Edit == \E t \in TplArgs : Page("edit", t, OrDefault(t, "editTemplate", parent))

AddSuccess ==
    \E t \in TplArgs :
        Page("addSuccess", t, ParentOrOwn(t, "addSuccessTemplate", parent))

EditSuccess ==
    \E t \in TplArgs :
        Page("editSuccess", t, ParentOrOwn(t, "editSuccessTemplate", parent))

DeleteSuccess ==
    \E t \in TplArgs :
        Page("deleteSuccess", t,
             ParentOrOwn(t, "deleteSuccessTemplate", parent))

List ==
    \E t \in TplArgs : ListPage("list", t, OrDefault(t, "listTemplate", parent))

ListRootNodes ==
    \E t \in TplArgs :
        IF ListRootNodesRaises(t, parent)
        THEN /\ view' = "listRootNodes"
             /\ tpl' = t
             /\ resolved' = <<>>
             /\ outcome' = AttributeError
             /\ UNCHANGED <<env, envBuilds, hookCalls, envReturned>>
             /\ ViewFrame
        ELSE ListPage("listRootNodes", t, ListRootNodesTpl(t, parent))

View == \E t \in TplArgs : Page("view", t, OrDefault(t, "viewTemplate", parent))

ReparentSuccess ==
    \E t \in TplArgs :
        Page("reparentSuccess", t,
             ParentOrOwn(t, "reparentSuccessTemplate", parent))

CloneSuccess ==
    \E t \in TplArgs :
        Page("cloneSuccess", t, ParentOrOwn(t, "cloneSuccessTemplate", parent))

\* the template files of the view specification: the caller's template
\* and the module's list template in the application's folder, "list"
\* among the templates shipped with the server
ViewFiles ==
    {join(<<htmlpath, "custom.html">>), join(<<htmlpath, "my_list.html">>),
     join(<<fallbackpath, "list.html">>)}

\* a specification that renders no view
ViewIdle ==
    /\ parent = NoParent
    /\ view = "none"
    /\ tpl = NoTpl
    /\ resolved = <<>>
    /\ outcome = PyNone
    /\ env = NoEnv
    /\ envBuilds = 0
    /\ hookCalls = 0
    /\ envReturned = NoEnv

(***************************************************************************)
(* core/render/html/default.py: Render.renderEmail                         *)
(* The text a template renders to is a sequence of characters.             *)
(***************************************************************************)
\* the characters of a rendered text: a letter, a blank and a line break
EmailChars == {"a", " ", "\n"}

\* the white space among them
Whitespace == {" ", "\n"}

\* str.lstrip()
RECURSIVE lstrip(_)
lstrip(s) == IF s # <<>> /\ s[1] \in Whitespace THEN lstrip(Tail(s)) ELSE s

\* str.splitlines(): a line ends at a line break; a break at the very end
\* opens no further line
RECURSIVE splitlines(_)
splitlines(s) ==
    IF s = <<>> THEN <<>>
    ELSE LET breaks == {i \in 1..Len(s) : s[i] = "\n"}
         IN  IF breaks = {} THEN <<s>>
             ELSE LET i == CHOOSE b \in breaks : \A c \in breaks : b <= c
                  IN  <<SubSeq(s, 1, i - 1)>>
                          \o splitlines(SubSeq(s, i + 1, Len(s)))

\* os.linesep, on the platforms the server runs on
linesep == <<"\n">>

\* os.linesep.join(lines)
RECURSIVE linesepJoin(_)
linesepJoin(lines) ==
    IF lines = <<>> THEN <<>>
    ELSE IF Len(lines) = 1 THEN lines[1]
    ELSE lines[1] \o linesep \o linesepJoin(Tail(lines))

\* what renderEmail raises
IndexError == [t |-> "IndexError"]
TypeError == [t |-> "TypeError"]
TemplateSyntaxError == [t |-> "TemplateSyntaxError"]
TemplateNotFound == [t |-> "TemplateNotFound"]

\* the pair renderEmail returns
Pair(subject, body) == [t |-> "pair", subject |-> subject, body |-> body]

\* lines 589-592 on the rendered text out: content[0] of an empty list
\* raises IndexError
SubjectBody(out) ==
    LET lines == splitlines(lstrip(out))
        content == IF Len(lines) = 1 THEN <<<<>>>> \o lines ELSE lines
    IN  IF content = <<>> THEN IndexError
        ELSE Pair(content[1], lstrip(linesepJoin(Tail(content))))

\* a template given as a string: one that compiles, or a malformed one
Source(ok) == [t |-> "source", ok |-> ok]

\* what a template file is: not there, malformed, or one that compiles
FileStates == {"missing", "malformed", "ok"}

\* self.getEnv().get_template(file + ".email") (line 586)
LoadFromLoaders(lf) ==
    CASE lf = "ok" -> SubjectBody(output)
      [] lf = "missing" -> TemplateNotFound
      [] lf = "malformed" -> TemplateSyntaxError

\* self.getEnv().from_string(template) (line 588)
LoadInline_FallsBack(src) ==
    IF src = PyNone THEN LoadFromLoaders(loaderFile)
    ELSE IF ~src.ok THEN LoadFromLoaders(loaderFile)
    ELSE SubjectBody(output)
LoadInline(src) ==
    IF src = PyNone THEN TypeError
    ELSE IF ~src.ok THEN TemplateSyntaxError
    ELSE SubjectBody(output)

\* a specification that renders no email
EmailIdle ==
    /\ file = PyNone
    /\ inline = PyNone
    /\ emailsFile = "missing"
    /\ loaderFile = "missing"
    /\ output = <<>>
    /\ logged = 0
    /\ attempts = <<>>
    /\ email = PyNone

PageIdle == TemplateIdle /\ ViewIdle /\ EmailIdle

\* renderEmail(dests, file, template, skel) (lines 576-592). In line 583
\* getEnv is called before the file is opened; whatever is raised there
\* is caught and logged, and getEnv is called again in line 586.
RenderEmail ==
    /\ pc = "request"
    /\ pc' = "done"
    /\ \E g \in getEnv(env, parent) :
         IF file # PyNone
         THEN IF g.ret # HookError /\ emailsFile = "ok"
              THEN /\ CallGetEnv(g)
                   /\ logged' = logged
                   /\ attempts' = <<"emails">>
                   /\ email' = SubjectBody(output)
              ELSE /\ \E g2 \in getEnv(g.env, parent) :
                        /\ env' = g2.env
                        /\ envReturned' = g2.ret
                        /\ envBuilds' = envBuilds + g.builds + g2.builds
                        /\ hookCalls' = hookCalls + g.hooks + g2.hooks
                   /\ logged' = logged + 1
                   /\ attempts' = IF g.ret = HookError THEN <<"loaders">>
                                  ELSE <<"emails", "loaders">>
                   /\ email' = LoadFromLoaders(loaderFile)
         ELSE /\ CallGetEnv(g)
              /\ logged' = logged
              /\ IF g.ret = HookError
                 THEN /\ attempts' = <<>>
                      /\ email' = HookError
                 ELSE /\ attempts' = <<"inline">>
                      /\ email' = LoadInline(inline)
    /\ UNCHANGED <<file, inline, emailsFile, loaderFile, output, parent, view,
                   tpl, resolved, outcome, templateVars, colorVars,
                   structVars, valueVars, userVars>>

(***************************************************************************)
(* Specifications                                                          *)
(***************************************************************************)
\* one call on one request, the request drawn from Inputs
InitColor ==
    /\ ColorInit
    /\ data \in Requests(Inputs)
    /\ pc = "request"
    /\ StructIdle
    /\ ValueIdle
    /\ UserIdle
    /\ PageIdle

NextColor == FromClient

SpecColor == InitColor /\ [][NextColor]_vars

\* any sequence of calls on one bone
InitColorSeq ==
    /\ ColorInit
    /\ data = EmptyDict
    /\ pc = "done"
    /\ StructIdle
    /\ ValueIdle
    /\ UserIdle
    /\ PageIdle

NextColorSeq == FromClientSeq

SpecColorSeq == InitColorSeq /\ [][NextColorSeq]_vars

\* one renderSkelStructure call on one skeleton
\* (up to MaxFields fields with distinct names, each a bone or not, and
\* errors recorded for some names)
InitStruct ==
    /\ \E ks \in DistinctSeqs(FieldNames, MaxFields) :
         \E es \in [1..Len(ks) -> StructBones \cup {NonBone}] :
           \E er \in ErrorMaps :
             skel = Skeleton(ks, es, er)
    /\ structure = <<>>
    /\ pc = "request"
    /\ ColorIdle
    /\ ValueIdle
    /\ UserIdle
    /\ PageIdle

NextStruct == RenderSkelStructure

SpecStruct == InitStruct /\ [][NextStruct]_vars

\* one renderBoneValue call: on a value not yet unwrapped, or (the call
\* renderBoneValue makes itself) on the value of one language
InitValue ==
    /\ bone \in ValueBones
    /\ isLanguageWrapped \in IF Truthy(bone.languages) THEN BOOLEAN ELSE {FALSE}
    /\ boneValue \in IF Truthy(bone.languages) /\ ~isLanguageWrapped
                    THEN WrappedValues(bone) ELSE PlainValues(bone)
    /\ rendered = PyNone
    /\ pc = "request"
    /\ ColorIdle
    /\ StructIdle
    /\ UserIdle
    /\ PageIdle

NextValue == RenderBoneValue

SpecValue == InitValue /\ [][NextValue]_vars

\* any sequence of performMagic calls on one user bone
InitUser ==
    /\ UserInit
    /\ pc = "done"
    /\ ColorIdle
    /\ StructIdle
    /\ ValueIdle
    /\ PageIdle

NextUser == PerformMagic \/ SessionChange

SpecUser == InitUser /\ [][NextUser]_vars

\* one getTemplateFileName call: any request, any language, any files
InitTemplate ==
    /\ files \in FileSets(AllFiles, MaxFiles)
    /\ kwargs \in Kwargs
    /\ lang \in Langs
    /\ template \in Templates
    /\ ignoreStyle \in BOOLEAN
    /\ fileName = PyNone
    /\ pc = "request"
    /\ ColorIdle
    /\ StructIdle
    /\ ValueIdle
    /\ UserIdle
    /\ ViewIdle
    /\ EmailIdle

NextTemplate == GetTemplateFileName

SpecTemplate == InitTemplate /\ [][NextTemplate]_vars

\* any sequence of views rendered by one Render of one module, on a
\* request without style or language
InitView ==
    /\ parent \in Parents
    /\ files \in SUBSET ViewFiles
    /\ kwargs = NoKwargs
    /\ lang = ""
    /\ template = <<"list">>
    /\ ignoreStyle = FALSE
    /\ fileName = PyNone
    /\ view = "none"
    /\ tpl = NoTpl
    /\ resolved = <<>>
    /\ outcome = PyNone
    /\ env = NoEnv
    /\ envBuilds = 0
    /\ hookCalls = 0
    /\ envReturned = NoEnv
    /\ pc = "done"
    /\ ColorIdle
    /\ StructIdle
    /\ ValueIdle
    /\ UserIdle
    /\ EmailIdle

NextView ==
    \/ Add
    \/ Edit
    \/ AddSuccess
    \/ EditSuccess
    \/ DeleteSuccess
    \/ List
    \/ ListRootNodes
    \/ View
    \/ ReparentSuccess
    \/ CloneSuccess

SpecView == InitView /\ [][NextView]_vars

\* one renderEmail call of a fresh Render: from a named file, or from a
\* template string
InitEmail ==
    /\ parent \in {NoParent, [a \in {"jinjaEnv"} |-> ModuleValue(a)]}
    /\ \/ /\ file = PyStr("mail")
          /\ inline = PyNone
          /\ emailsFile \in FileStates
          /\ loaderFile \in FileStates
       \/ /\ file = PyNone
          /\ inline \in {PyNone, Source(FALSE), Source(TRUE)}
          /\ emailsFile = "missing"
          /\ loaderFile = "missing"
    /\ output \in Str(EmailChars, MaxOut)
    /\ logged = 0
    /\ attempts = <<>>
    /\ email = PyNone
    /\ view = "none"
    /\ tpl = NoTpl
    /\ resolved = <<>>
    /\ outcome = PyNone
    /\ env = NoEnv
    /\ envBuilds = 0
    /\ hookCalls = 0
    /\ envReturned = NoEnv
    /\ pc = "request"
    /\ TemplateIdle
    /\ ColorIdle
    /\ StructIdle
    /\ ValueIdle
    /\ UserIdle

NextEmail == RenderEmail

SpecEmail == InitEmail /\ [][NextEmail]_vars

(***************************************************************************)
(* Claims about colorBone.fromClient                                       *)
(***************************************************************************)
\* the lower-case hex digits
HexDigits == ValidChars \ {"#"}

\* "#" followed by exactly n lower-case hex digits
IsHashHex(v, n) ==
    /\ Len(v) = n + 1
    /\ v[1] = "#"
    /\ \A i \in 2..(n + 1) : v[i] \in HexDigits

\* a string of hex digits in any letter case, no "#"
AllHex(v) == \A i \in 1..Len(v) : LowerChar(v[i]) \in HexDigits

\* the string the last request carried for the bone
Sent == data[BoneName]

\* C1: after any sequence of fromClient calls, whenever a call with a
\* supplied value returns no error, the stored value is "#" followed by 6
\* lower-case hex digits in mode rgb and by 8 in mode rgba.
C1_StoredValueIsHashHex ==
    (supplied /\ ret = RetNone)
        => IsHashHex(value, IF mode = "rgb" THEN 6 ELSE 8)

\* C2: in mode rgb, an input of characters of "#0123456789abcdef" (after
\* lower-casing) with at most one "#" succeeds and stores a 7-character
\* "#"-prefixed lower-case string when it has 3 or 6 hex digits, and
\* returns "Invalid value entered" for every other number of digits.
C2_RgbDigitCountDecides ==
    (pc = "done" /\ mode = "rgb" /\ supplied
        /\ (\A i \in 1..Len(Sent) : LowerChar(Sent[i]) \in ValidChars)
        /\ Count(Sent, "#") <= 1)
    => IF Len(Sent) - Count(Sent, "#") \in {3, 6}
       THEN /\ ret = RetNone
            /\ Len(value) = 7
            /\ value[1] = "#"
            /\ Lower(value) = value
       ELSE ret = "Invalid value entered"

\* C3: in mode rgb, three hex digits r, g, b in any letter case, sent as
\* "rgb" or "#rgb", are stored as "#rrggbb" lower-cased; six bare hex
\* digits are stored lower-cased behind a "#"; "#" and six hex digits are
\* stored lower-cased as they are; none of these returns an error.
C3_RgbAcceptedForms ==
    (pc = "done" /\ mode = "rgb" /\ supplied)
    => LET v == Sent
           l == [i \in 1..Len(v) |-> LowerChar(v[i])]
       IN  /\ (Len(v) = 3 /\ AllHex(v))
                => /\ ret = RetNone
                   /\ value = <<"#", l[1], l[1], l[2], l[2], l[3], l[3]>>
           /\ (Len(v) = 4 /\ v[1] = "#" /\ AllHex(Tail(v)))
                => /\ ret = RetNone
                   /\ value = <<"#", l[2], l[2], l[3], l[3], l[4], l[4]>>
           /\ (Len(v) = 6 /\ AllHex(v))
                => /\ ret = RetNone
                   /\ value = <<"#">> \o l
           /\ (Len(v) = 7 /\ v[1] = "#" /\ AllHex(Tail(v)))
                => /\ ret = RetNone
                   /\ value = l

\* C3 witness: "B1B" was sent to an rgb bone and "#bb11bb" is stored
C3_Witness ==
    /\ pc = "done" /\ mode = "rgb" /\ supplied
    /\ Sent = <<"B", "1", "B">>
    /\ ret = RetNone
    /\ value = <<"#", "b", "b", "1", "1", "b", "b">>

\* C4: in mode rgba, fromClient accepts exactly 8 bare hex digits, or "#"
\* followed by 8 hex digits, and stores "#" followed by the 8 lower-case
\* digits; every other input returns "Invalid value entered".
C4_RgbaAcceptsExactlyTwoShapes ==
    (pc = "done" /\ mode = "rgba" /\ supplied)
    => IF \/ (Len(Sent) = 8 /\ AllHex(Sent))
          \/ (Len(Sent) = 9 /\ Sent[1] = "#" /\ AllHex(Tail(Sent)))
       THEN /\ ret = RetNone
            /\ IsHashHex(value, 8)
            /\ value = (IF Len(Sent) = 8 THEN <<"#">> ELSE <<>>)
                          \o [i \in 1..Len(Sent) |-> LowerChar(Sent[i])]
       ELSE ret = "Invalid value entered"

\* C5: a fromClient call changes the stored value only when a value was
\* supplied and the call returns no error: an error leaves the previous
\* value, and an absent (or None) field returns no error and leaves the
\* previous value.
C5_ValueChangesOnlyOnSuccess ==
    [][/\ (ret' # RetNone) => (value' = value)
       /\ (~supplied') => (ret' = RetNone /\ value' = value)]_vars

\* C5 witness: a call returned an error while the bone held a value
\* stored by an earlier call
C5_Witness ==
    /\ ret = "Invalid value entered"
    /\ supplied
    /\ value # None

(***************************************************************************)
(* Claims about Render.renderSkelStructure                                 *)
(***************************************************************************)
\* C7: for every field retained by renderSkelStructure, the rendered
\* "error" entry is non-null if and only if the field name is in the
\* skeleton's error mapping, and then it is the recorded message.
C7_ErrorIffRecorded ==
    pc = "done" =>
        \A i \in 1..Len(structure) :
            LET key == structure[i][1]
                err == structure[i][2].error
            IN  /\ (err # PyNone) <=> (key \in DOMAIN skel.errors)
                /\ (key \in DOMAIN skel.errors) => (err = skel.errors[key])

\* C7 witness: a rendered structure with one field carrying its recorded
\* error and another field carrying none
C7_Witness ==
    /\ pc = "done"
    /\ \E i, j \in 1..Len(structure) :
         /\ structure[i][1] \in DOMAIN skel.errors
         /\ structure[i][2].error \in ErrorMessages
         /\ structure[j][1] \notin DOMAIN skel.errors
         /\ structure[j][2].error = PyNone

\* a field whose name has no two adjacent underscores and whose value is a
\* bone
C8_Retained(item) ==
    /\ item[2].isBone
    /\ ~\E i \in 1..(Len(item[1]) - 1) :
          item[1][i] = "_" /\ item[1][i + 1] = "_"

\* C8: the keys of the mapping renderSkelStructure returns are exactly the
\* skeleton's field names that contain no double underscore and whose
\* value is a bone, in the skeleton's declared order.
C8_KeysAreRetainedFieldsInOrder ==
    pc = "done" =>
        [i \in 1..Len(structure) |-> structure[i][1]]
            = LET kept == SelectSeq(skel.items, C8_Retained)
              IN  [i \in 1..Len(kept) |-> kept[i][1]]

\* C8 witness: of two fields, both bones, the one named "a__b" was
\* dropped and the other one kept
C8_Witness ==
    /\ pc = "done"
    /\ Len(skel.items) = 2
    /\ skel.items[1][1] = KeyInner
    /\ skel.items[1][2].isBone
    /\ skel.items[2][2].isBone
    /\ Len(structure) = 1
    /\ structure[1][1] = skel.items[2][1]

(***************************************************************************)
(* Claims about Render.renderBoneValue                                     *)
(***************************************************************************)
\* the call unwraps languages: the bone declares some and the value is
\* not yet unwrapped
C6_Unwraps == bone.languages # PyNone /\ ~isLanguageWrapped

\* C6 as stated: value rendering of a password bone yields the empty
\* string for every stored value.
C6_PasswordRendersEmptyString ==
    (pc = "done" /\ bone.type = <<"password">>) => rendered = PyStr("")

\* C6 as amended: value rendering of a password bone yields the empty
\* string for every stored value when the bone declares no languages or
\* the value is already language-unwrapped; when the bone declares
\* languages and the value is not yet unwrapped it yields a language
\* mapping with one entry, the empty string, per declared language the
\* value has an entry for. The result never contains the stored secret.
C6_PasswordNeverRendersSecret ==
    (pc = "done" /\ bone.type = <<"password">>) =>
        IF C6_Unwraps
        THEN /\ rendered.t = "LanguageWrapper"
             /\ DOMAIN rendered.d =
                  IF boneValue.t = "dict"
                  THEN {"en", "de"} \cap DOMAIN boneValue.d ELSE {}
             /\ \A language \in DOMAIN rendered.d :
                  rendered.d[language] = PyStr("")
        ELSE rendered = PyStr("")

\* C6 witness: a password bone with languages holding a secret for "en"
\* was rendered to a mapping of "en" to the empty string; and a secret
\* of one language renders to the empty string
C6_Witness ==
    /\ pc = "done"
    /\ bone.type = <<"password">>
    /\ C6_Unwraps
    /\ boneValue.t = "dict"
    /\ "en" \in DOMAIN boneValue.d
    /\ boneValue.d["en"] = PyStr("s3cret")
    /\ rendered.d = [language \in {"en"} |-> PyStr("")]

\* the bone's type is base, or base followed by a dot and more
C9_Type(base) == bone.type[1] = base

\* a value Python takes for false: None, "", [] or {}
C9_Empty(v) ==
    v \in {PyNone, PyStr(""), PyList(<<>>), PyDict([k \in {} |-> PyNone])}

\* C9 as stated: renderBoneValue returns null only when the bone is of
\* type record and its value is empty.
C9_NullOnlyForEmptyRecord ==
    (pc = "done" /\ rendered = PyNone)
        => (C9_Type("record") /\ C9_Empty(boneValue))

\* C9 as amended: renderBoneValue returns null exactly when it does not
\* unwrap languages and the bone is of type record with an empty value,
\* of type relational with a value that is neither a list nor a dict, of
\* type key with an empty value, or of a type without a branch of its own
\* (not select, not password) with a value that is null; every other
\* result is non-null.
C9_NullExactlyWhen ==
    pc = "done" =>
        ((rendered = PyNone) <=>
            /\ ~C6_Unwraps
            /\ \/ C9_Type("record") /\ C9_Empty(boneValue)
               \/ C9_Type("relational") /\ boneValue.t \notin {"list", "dict"}
               \/ bone.type = <<"key">> /\ C9_Empty(boneValue)
               \/ /\ ~C9_Type("record") /\ ~C9_Type("relational")
                  /\ ~C9_Type("select")
                  /\ bone.type \notin {<<"key">>, <<"password">>}
                  /\ boneValue = PyNone)

\* C9 witness: a record bone with an empty list was rendered to null
C9_Witness ==
    /\ pc = "done"
    /\ C9_Type("record")
    /\ boneValue = PyList(<<>>)
    /\ rendered = PyNone

(***************************************************************************)
(* Claims about userBone.performMagic                                      *)
(***************************************************************************)
\* C10: performMagic(isAdd) invokes the relation validator exactly when
\* updateMagic is set, or creationMagic is set and isAdd is true: with a
\* current user the validator receives the field "user" bound to the
\* user's id as a string, without one it receives empty input, and
\* performMagic returns the validator's result; otherwise the validator is
\* not invoked, no current user is looked up, the bone is unchanged and no
\* error is returned.
C10_MagicInvokesValidatorWhenTriggered ==
    [][(magicCalls' = magicCalls + 1) =>
         IF updateMagic \/ (creationMagic /\ isAdd')
         THEN /\ Len(validatorCalls') = Len(validatorCalls) + 1
              /\ SubSeq(validatorCalls', 1, Len(validatorCalls)) = validatorCalls
              /\ lookups' = lookups + 1
              /\ LET call == validatorCalls'[Len(validatorCalls')]
                 IN  /\ call.name = "user"
                     /\ call.data =
                          IF currentUser = PyNone THEN [k \in {} |-> ""]
                          ELSE IF currentUser.id = 7
                          THEN [k \in {"user"} |-> "7"]
                          ELSE [k \in {"user"} |-> "42"]
                     /\ magicRet' = call.ret
         ELSE /\ validatorCalls' = validatorCalls
              /\ lookups' = lookups
              /\ userValue' = userValue
              /\ <<creationMagic', updateMagic', visible', multiple'>>
                   = <<creationMagic, updateMagic, visible, multiple>>
              /\ magicRet' = RetNone]_vars

\* C10 witness: a bone with creationMagic alone, after a call with isAdd
\* that handed user 42's id to the validator and returned its error
C10_Witness ==
    /\ creationMagic /\ ~updateMagic
    /\ isAdd
    /\ magicCalls = 1
    /\ validatorCalls = <<[name |-> "user", data |-> [k \in {"user"} |-> "42"],
                           ret |-> "Invalid value selected"]>>
    /\ magicRet = "Invalid value selected"

(***************************************************************************)
(* Claims about Render.getTemplateFileName                                 *)
(***************************************************************************)
\* the folders probed, in the order the claim gives: the subfolder named
\* after the first part of the template name, the application's template
\* folder, the folder of the bundled templates
Tiers == <<join(<<htmlpath, template[1]>>), htmlpath, fallbackpath>>

\* every candidate of the request, tier by tier and within a tier variant
\* by variant
Candidates ==
    LET fns == fnames(template, stylePostfix(kwargs, ignoreStyle), lang)
    IN  [i \in 1..(3 * Len(fns)) |->
            join(<<Tiers[((i - 1) \div Len(fns)) + 1],
                   fns[((i - 1) % Len(fns)) + 1]>>)]

\* the candidates that exist
Existing == {i \in 1..Len(Candidates) : Candidates[i] \in files}

\* C11: getTemplateFileName raises NotFound exactly when no candidate
\* exists in any tier; otherwise it returns a name under which the loaders
\* read the first existing candidate, the candidates taken tier by tier
\* (subfolder, template root, bundled fallback) and within a tier in the
\* order {lang}/{name}_{style}, {name}_{style}, {lang}/{name}, {name}: a
\* match in an earlier tier wins over any match in a later one, and a
\* candidate that exists only in the fallback tier is found.
C11_FirstCandidateTierByTier ==
    pc = "done" =>
        IF Existing = {}
        THEN fileName = NotFound
        ELSE /\ fileName.t = "str"
             /\ get_template(fileName.s, files) =
                  PyStr(Candidates[CHOOSE i \in Existing :
                                      \A j \in Existing : i <= j])

\* a call that finds the least specific variant in the subfolder although
\* the most specific one exists in the fallback folder
C11_Witness ==
    /\ pc = "done"
    /\ template = <<"list">>
    /\ lang = "en"
    /\ kwargs = [k \in {"style"} |-> <<"b">>]
    /\ ~ignoreStyle
    /\ files = {"html/list/list.html", "viur/core/template/en/list_b.html"}
    /\ fileName = PyStr("list/list.html")

(***************************************************************************)
(* Claims about the views of Render                                        *)
(***************************************************************************)
\* the attribute that names the template of a view kind
ViewAttr(kind) ==
    CASE kind = "add" -> "addTemplate"
      [] kind = "edit" -> "editTemplate"
      [] kind = "addSuccess" -> "addSuccessTemplate"
      [] kind = "editSuccess" -> "editSuccessTemplate"
      [] kind = "deleteSuccess" -> "deleteSuccessTemplate"
      [] kind = "list" -> "listTemplate"
      [] kind = "listRootNodes" -> "listRepositoriesTemplate"
      [] kind = "view" -> "viewTemplate"
      [] kind = "reparentSuccess" -> "reparentSuccessTemplate"
      [] kind = "cloneSuccess" -> "cloneSuccessTemplate"

\* C12: whatever view was rendered last, the template name it used (the
\* first name it handed to getTemplateFileName) is the tpl argument when
\* one was given, otherwise the owning module's attribute for that view
\* kind when the module defines it, otherwise the renderer's own default
\* for that view kind.
C12_TemplateNameByPrecedence ==
    view # "none" =>
        /\ resolved # <<>>
        /\ resolved[1] =
             IF Given(tpl) THEN tpl
             ELSE IF ViewAttr(view) \in DOMAIN parent
             THEN parent[ViewAttr(view)]
             ELSE Render[ViewAttr(view)]

(***************************************************************************)
(* Claims about Render.renderEmail                                         *)
(***************************************************************************)
\* the lines of the rendered text
OutputLines == splitlines(output)

\* the lines of the rendered text that are not empty
NonEmptyLines == {i \in 1..Len(OutputLines) : OutputLines[i] # <<>>}

\* the first of them
FirstLine == CHOOSE i \in NonEmptyLines : \A j \in NonEmptyLines : i <= j

\* a call that got as far as rendering its template
Rendered == email.t \in {"pair", "IndexError"}

\* C13: whenever renderEmail rendered a template it returns a (subject,
\* body) pair; when the rendered text is a single line the subject is the
\* empty string and that line is the body, otherwise the subject is the
\* first non-empty line of the text and the body is the lines after it
\* joined with the platform's line separator.
C13_SubjectIsFirstNonEmptyLine ==
    (pc = "done" /\ Rendered) =>
        /\ email.t = "pair"
        /\ IF Len(OutputLines) = 1
           THEN email = Pair(<<>>, OutputLines[1])
           ELSE /\ NonEmptyLines # {}
                /\ email = Pair(OutputLines[FirstLine],
                                linesepJoin(SubSeq(OutputLines, FirstLine + 1,
                                                   Len(OutputLines))))

\* the module's hook raised inside getEnv: the hook was called and env is
\* the Environment as it was before the call
HookRaised == hookCalls = 1 /\ env = Built(FALSE)

\* an exception was raised while the template was loaded or compiled from
\* the source the call names: the file under emails/, or the string
LoadFailed ==
    IF file # PyNone THEN emailsFile # "ok" \/ HookRaised
    ELSE IF inline = PyNone THEN TRUE
    ELSE ~inline.ok \/ HookRaised

\* the fallback lookup was the last thing tried
FellBack == attempts # <<>> /\ attempts[Len(attempts)] = "loaders"

\* C15 as stated: whenever loading or compiling the email template raised
\* an exception, from a named file or from an inline template string, the
\* exception was logged and the file-based fallback lookup was attempted.
C15_AnyLoadErrorFallsBack ==
    (pc = "done" /\ LoadFailed) => (logged = 1 /\ FellBack)

\* C15 amended: an exception raised while the template is loaded or
\* compiled from the named file under emails/ is logged and followed by
\* the lookup of file + ".email" through the loaders, whose result or
\* error is the call's; an exception raised while an inline template
\* string is compiled is not logged, no lookup follows and the call
\* raises it.
C15_OnlyFileErrorsFallBack ==
    (pc = "done" /\ LoadFailed) =>
        IF file # PyNone
        THEN /\ logged = 1
             /\ FellBack
             /\ (loaderFile = "ok") = Rendered
             /\ (loaderFile = "missing") = (email = TemplateNotFound)
        ELSE /\ logged = 0
             /\ ~FellBack
             /\ email \in {TypeError, TemplateSyntaxError, HookError}

\* a call whose file under emails/ is malformed and which renders the
\* template the loaders find
C15_Witness ==
    /\ pc = "done"
    /\ file = PyStr("mail")
    /\ emailsFile = "malformed"
    /\ loaderFile = "ok"
    /\ logged = 1
    /\ attempts = <<"emails", "loaders">>
    /\ email.t = "pair"

(***************************************************************************)
(* Claims about list, listRootNodes and getEnv                             *)
(***************************************************************************)
\* the last call was a list or listRootNodes that got to load a template
ListResolved ==
    /\ view \in {"list", "listRootNodes"}
    /\ outcome \notin {PyNone, AttributeError, HookError}

\* C14: a list or listRootNodes call resolves a name twice. When the name
\* chosen resolves, it is also the second name and its template is
\* rendered; when it raises NotFound, the second name is "list", and the
\* call raises NotFound only if "list" resolves to no template either,
\* otherwise it renders the template of "list".
C14_ListRetriesOnceWithList ==
    ListResolved =>
        /\ Len(resolved) = 2
        /\ IF Resolve(resolved[1]) # NotFound
           THEN /\ resolved[2] = resolved[1]
                /\ outcome = Html(Resolve(resolved[1]))
           ELSE /\ resolved[2] = <<"list">>
                /\ (outcome = NotFound) = (Resolve(<<"list">>) = NotFound)
                /\ outcome # NotFound => outcome = Html(Resolve(<<"list">>))

\* a list call asked for a template that does not exist, which renders
\* the "list" template shipped with the server
C14_Witness ==
    /\ view = "list"
    /\ tpl = <<"custom">>
    /\ join(<<htmlpath, "custom.html">>) \notin files
    /\ resolved = <<<<"custom">>, <<"list">>>>
    /\ outcome = [t |-> "html", file |-> join(<<fallbackpath, "list.html">>)]

\* C16: over any sequence of views of one Render, a step that calls
\* getEnv constructs the Environment and calls the module's jinjaEnv hook
\* (once, when there is one) if env was not set yet; if env was set, it
\* returns that very environment, constructs none and does not call the
\* hook. No more than one Environment is ever constructed and the hook is
\* never called twice.
C16_EnvironmentBuiltOnce ==
    [][outcome' # AttributeError =>
          /\ envBuilds' <= 1
          /\ hookCalls' <= 1
          /\ IF env = NoEnv
             THEN /\ env' # NoEnv
                  /\ envBuilds' = 1
                  /\ hookCalls' = IF "jinjaEnv" \in DOMAIN parent THEN 1 ELSE 0
             ELSE /\ env' = env
                  /\ envReturned' = env
                  /\ envBuilds' = envBuilds
                  /\ hookCalls' = hookCalls]_vars

\* a later view got the environment of the first getEnv call, in which
\* the hook had raised: nothing was constructed again and the hook was
\* not called again
C16_Witness ==
    /\ view # "none"
    /\ "jinjaEnv" \in DOMAIN parent
    /\ HookRaised
    /\ envReturned = env
    /\ envBuilds = 1
    /\ outcome.t = "html"

====
